---- MODULE Spec2Model ----
(***************************************************************************)
(* Model of reverso_context_api: the session / login handshake of          *)
(* ReversoSession (session.py) and the two pagers of Client (client.py).   *)
(*                                                                         *)
(* Granularity: the program blocks only inside a transport call, so every  *)
(* action runs from one suspension point (a generator's yield, a blocking  *)
(* request, the start of a call) to the next one.  A request is logged in  *)
(* `net` when it is issued; the response is an input of the following      *)
(* action.                                                                 *)
(***************************************************************************)
EXTENDS Integers, Sequences, FiniteSets, TLC

\* ---------------------------------------------------------------- bounds
MaxNPages == 3      \* largest npages value the service reports
MaxPageNum == 5     \* page numbers are followed up to here (stops endless iterations)
MaxFavPages == 2    \* numTotalResults values lie around 0..MaxFavPages page boundaries
MaxLoginCalls == 2  \* login() invocations followed per session
MaxToken == 2       \* distinct verification tokens the login page hands out
MaxJsonCalls == 2   \* get_translations calls followed
MaxTextLen == 4     \* longest text handed to _cleanup_html_tags

\* ------------------------------------------------------- program constants
FAVORITES_PAGE_SIZE == 50

RETURN_URL == "https://context.reverso.net/translation/"

ANTIFORGERY == "Reverso.Account.Antiforgery"

\* Python's None and a present value, kept comparable: None is the empty
\* set and a value x is {x}.
None == {}

Some(x) == {x}

\* ------------------------------------------------------------ environment
\* What the transport can hand back.  `jar` is what the response does to the
\* antiforgery cookie of the session's cookie jar.
Statuses == {200, 404, 500}

JarEffects == {"keep", "set", "clear"}

\* final URLs of the credential POST after redirects
FinalUrls == {RETURN_URL, "https://account.reverso.net/Account/Login", "https://context.reverso.net/"}

Tokens == 1..MaxToken

\* numTotalResults values: every page boundary up to MaxFavPages, one below, one above
Totals == {t \in 0..(MaxFavPages * FAVORITES_PAGE_SIZE + 1) :
             \E k \in 0..MaxFavPages : \E d \in {-1, 0, 1} : t = k * FAVORITES_PAGE_SIZE + d}

\* a JSON endpoint's response: status, whether the body has an "error" key,
\* the total the body carries (npages / numTotalResults)
JsonResponses(Counts) == [status : Statuses, error : BOOLEAN, n : Counts, jar : JarEffects]

\* the login page: status, the hidden input's value (None: no such input)
PageResponses == [status : Statuses, token : {None} \cup {Some(t) : t \in Tokens}, jar : JarEffects]

\* the credential POST: status and final URL after redirects
PostResponses == [status : Statuses, url : FinalUrls, jar : JarEffects]

Credentials == {None, Some(<<"email", "password">>)}

Callers == {"app", "fav"}

VARIABLES
    credentials,  \* ReversoSession._credentials
    logged_in,    \* ReversoSession.logged_in
    cookies,      \* ReversoSession.cookies (names held)
    login_pc,     \* per caller: where its login() call is ("idle", "get", "post")
    login_token,  \* per caller: request_verification_token of its running call
    calls,        \* history: one record per login() invocation
    net,          \* history: every request handed to the transport, in order
    tp_pc,        \* _translations_pager generator: none/created/request/yielded/done/failed
    page_num,     \* _translations_pager local
    pages_total,  \* _translations_pager local
    tp_yield,     \* history: pages _translations_pager yielded
    tp_nexts,     \* history: next() calls on _translations_pager
    tp_exc,       \* exception that ended _translations_pager
    fp_pc,        \* _favorites_pager generator: none/created/login/request/yielded/done/failed
    start,        \* _favorites_pager local
    total,        \* _favorites_pager local
    fp_yield,     \* history: pages _favorites_pager yielded
    fp_nexts,     \* history: next() calls on _favorites_pager
    fp_exc,       \* exception that ended _favorites_pager
    jr_pc,        \* get_translations: "idle", or "request" while json_request blocks
    answers,      \* history: the responses json_request handled for get_translations, and how it ended
    text,         \* argument of the last _cleanup_html_tags call
    cleaned,      \* its result
    recleaned     \* result of _cleanup_html_tags applied to that result

sessionVars == <<credentials, logged_in, cookies>>

loginVars == <<login_pc, login_token, calls>>

tpVars == <<tp_pc, page_num, pages_total, tp_yield, tp_nexts, tp_exc>>

fpVars == <<fp_pc, start, total, fp_yield, fp_nexts, fp_exc>>

jrVars == <<jr_pc, answers>>

stripVars == <<text, cleaned, recleaned>>

vars == <<credentials, logged_in, cookies, login_pc, login_token, calls, net,
          tp_pc, page_num, pages_total, tp_yield, tp_nexts, tp_exc,
          fp_pc, start, total, fp_yield, fp_nexts, fp_exc,
          jr_pc, answers, text, cleaned, recleaned>>

\* ------------------------------------------------------------- session.py
\* requests.Response.raise_for_status as used by ReversoSession.request
RaisesForStatus(status) == status >= 400 /\ status < 600

\* the cookie jar after the transport has processed a response
JarAfter(jar, effect) ==
    CASE effect = "set" -> jar \cup {ANTIFORGERY}
      [] effect = "clear" -> jar \ {ANTIFORGERY}
      [] OTHER -> jar

\* faulty variant: the body is looked at before the status
JsonRequest_BodyFirst(resp) ==
    IF resp.error THEN "ReversoException"
    ELSE IF RaisesForStatus(resp.status) THEN "HTTPError"
    ELSE "ok"

\* ReversoSession.json_request: the way the call ends
JsonRequest(resp) ==
    IF RaisesForStatus(resp.status) THEN "HTTPError"
    ELSE IF resp.error THEN "ReversoException"
    ELSE "ok"

\* a request handed to the transport: `call` is the login() invocation it
\* belongs to (0: none), `arg` the token / page number / start it carries
Request(kind, call, arg, length) == [req |-> kind, call |-> call, arg |-> arg, length |-> length]

\* ReversoSession.__init__ / Client.__init__
Init ==
    /\ credentials \in Credentials
    /\ logged_in = FALSE
    /\ cookies = {}
    /\ login_pc = [c \in Callers |-> "idle"]
    /\ login_token = [c \in Callers |-> None]
    /\ calls = <<>>
    /\ net = <<>>
    /\ tp_pc = "none"
    /\ page_num = 0
    /\ pages_total = None
    /\ tp_yield = <<>>
    /\ tp_nexts = 0
    /\ tp_exc = "none"
    /\ fp_pc = "none"
    /\ start = 0
    /\ total = None
    /\ fp_yield = <<>>
    /\ fp_nexts = 0
    /\ fp_exc = "none"
    /\ jr_pc = "idle"
    /\ answers = <<>>
    /\ text = <<>>
    /\ cleaned = None
    /\ recleaned = None

\* single-threaded use: nothing is in the middle of a blocking call
Quiet ==
    /\ \A c \in Callers : login_pc[c] = "idle"
    /\ tp_pc /= "request"
    /\ fp_pc \notin {"login", "request"}
    /\ jr_pc = "idle"

\* faulty variant: the pager catches the exception and goes on
GeneratorAfterRaise_Swallowed(exc) == "yielded"

\* an exception that leaves a generator's body ends the generator
GeneratorAfterRaise(exc) == "failed"

\* -------------------------------------------------- _translations_pager
\* faulty variant: every request asks for the first page
NPageParam_FirstPage(n) == 1

\* Client._request_translations: page_num = page_num or 1
NPageParam(n) == IF n = 0 THEN 1 ELSE n

\* while page_num != pages_total
TransLoopCond(pn, pt) == Some(pn) /= pt

\* Client.get_translation_samples calls the pager: a generator is created,
\* none of its body runs
CallTranslationsPager ==
    /\ tp_pc = "none"
    /\ tp_pc' = "created"
    /\ UNCHANGED <<sessionVars, loginVars, net, page_num, pages_total, tp_yield,
                   tp_nexts, tp_exc, fpVars>>
    /\ UNCHANGED <<jrVars, stripVars>>

\* the consumer asks for the next page: the generator runs to its next
\* blocking request or to its end
TransNext ==
    /\ tp_pc \in {"created", "yielded"}
    /\ LET pn == IF tp_pc = "created" THEN 1 ELSE page_num + 1
           pt == IF tp_pc = "created" THEN None ELSE pages_total
       IN /\ pn <= MaxPageNum
          /\ page_num' = pn
          /\ pages_total' = pt
          /\ tp_nexts' = tp_nexts + 1
          /\ IF TransLoopCond(pn, pt)
             THEN /\ net' = Append(net, Request("TRANS", 0, NPageParam(pn), 0))
                  /\ tp_pc' = "request"
             ELSE /\ net' = net
                  /\ tp_pc' = "done"
    /\ UNCHANGED <<sessionVars, loginVars, tp_yield, tp_exc, fpVars>>
    /\ UNCHANGED <<jrVars, stripVars>>

\* the bst-query-service response arrives: json_request validates it, the
\* pager reads npages and yields the page
TransResponse(resp) ==
    /\ tp_pc = "request"
    /\ cookies' = JarAfter(cookies, resp.jar)
    /\ IF JsonRequest(resp) = "ok"
       THEN /\ pages_total' = Some(resp.n)
            /\ tp_yield' = Append(tp_yield, [page |-> page_num, npages |-> resp.n])
            /\ tp_pc' = "yielded"
            /\ tp_exc' = tp_exc
       ELSE /\ tp_pc' = GeneratorAfterRaise(JsonRequest(resp))
            /\ tp_exc' = JsonRequest(resp)
            /\ UNCHANGED <<pages_total, tp_yield>>
    /\ UNCHANGED <<credentials, logged_in, loginVars, net, page_num, tp_nexts, fpVars>>
    /\ UNCHANGED <<jrVars, stripVars>>

\* ------------------------------------------------------ get_translations
\* statuses a final response can carry, a 3xx the transport did not follow among them
JsonStatuses == {200, 201, 304, 404, 500}

TermsResponses == [status : JsonStatuses, error : BOOLEAN, n : {0}, jar : JarEffects]

\* the first next() on Client.get_translations: _request_translations with
\* page_num left None hands the query to json_request
GetTranslations ==
    /\ jr_pc = "idle"
    /\ Len(answers) < MaxJsonCalls
    /\ jr_pc' = "request"
    /\ net' = Append(net, Request("TERMS", 0, NPageParam(0), 0))
    /\ UNCHANGED <<sessionVars, loginVars, tpVars, fpVars, answers, stripVars>>

\* the response arrives and json_request ends: by raising, or by returning it
TermsResponse(resp) ==
    /\ jr_pc = "request"
    /\ cookies' = JarAfter(cookies, resp.jar)
    /\ answers' = Append(answers, [status |-> resp.status, error |-> resp.error,
                                   out |-> JsonRequest(resp)])
    /\ jr_pc' = "idle"
    /\ UNCHANGED <<credentials, logged_in, loginVars, net, tpVars, fpVars, stripVars>>

\* ------------------------------------------------- ReversoSession.login
\* the login() invocation of caller c that has not ended yet
CurrentCall(c) == CHOOSE i \in 1..Len(calls) : calls[i].by = c /\ calls[i].out = "running"

EndCall(cs, c, out) == [cs EXCEPT ![CurrentCall(c)].out = out]

\* history: what the running login() of caller c read from the login page
\* (status, hidden input, whether the jar then holds the antiforgery cookie)
SawPage(c, resp, jar) ==
    [calls EXCEPT ![CurrentCall(c)].page =
        Some([status |-> resp.status, token |-> resp.token, cookie |-> ANTIFORGERY \in jar])]

\* history: what the running login() of caller c got back from the POST
SawPost(c, resp) ==
    [calls EXCEPT ![CurrentCall(c)].post = Some([status |-> resp.status, url |-> resp.url])]

\* faulty variant: login() without the logged_in check
LoginEntry_NoFlagCheck(creds, li) ==
    IF creds = None THEN "NoCredentials" ELSE "get"

\* faulty variant: login() without the credentials check
LoginEntry_NoCredentialsCheck(creds, li) ==
    IF li THEN "returned" ELSE "get"

\* login(), lines 44-50: how the call goes on from its entry
LoginEntry(creds, li) ==
    IF creds = None THEN "NoCredentials"
    ELSE IF li THEN "returned"
    ELSE "get"

\* faulty variant: the token tag is used without the None check
LoginPageOutcome_NoTokenCheck(resp, jar) ==
    IF RaisesForStatus(resp.status) THEN "HTTPError"
    ELSE IF ANTIFORGERY \notin jar THEN "NoCookie"
    ELSE "post"

\* faulty variant: the antiforgery cookie is not looked at
LoginPageOutcome_NoCookieCheck(resp, jar) ==
    IF RaisesForStatus(resp.status) THEN "HTTPError"
    ELSE IF resp.token = None THEN "NoToken"
    ELSE "post"

\* _get_request_validation_token after the GET, then the cookie check of
\* login(): what the login page and the jar lead to
LoginPageOutcome(resp, jar) ==
    IF RaisesForStatus(resp.status) THEN "HTTPError"
    ELSE IF resp.token = None THEN "NoToken"
    ELSE IF ANTIFORGERY \notin jar THEN "NoCookie"
    ELSE "post"

\* _request_login after the POST: r.url != RETURN_URL
LoginSubmitOutcome(resp) ==
    IF RaisesForStatus(resp.status) THEN "HTTPError"
    ELSE IF resp.url /= RETURN_URL THEN "BadRedirect"
    ELSE "returned"

\* faulty variant: the token of the first login page ever fetched is kept
\* and sent again
TokenValue_Cached(tok) == IF tok = None THEN 0 ELSE 1

\* token_tag.attrs["value"]; 0 where there is no tag to read it from
TokenValue(tok) == IF tok = None THEN 0 ELSE CHOOSE t \in tok : TRUE

\* faulty variant: the flag is set whatever _request_login did
LoggedInAfterSubmit_SetEarly(out, li) == TRUE

\* login(), lines 56-57: logged_in after _request_login has returned or raised
LoggedInAfterSubmit(out, li) == IF out = "returned" THEN TRUE ELSE li

\* faulty variant: _favorites_pager goes on to its first request although
\* login() raised
Resume_IgnoringFailure(c, out, n1) ==
    IF c = "fav"
    THEN /\ start' = 0
         /\ total' = None
         /\ net' = Append(n1, Request("FAV", 0, 0, FAVORITES_PAGE_SIZE))
         /\ fp_pc' = "request"
         /\ fp_exc' = fp_exc
    ELSE /\ net' = n1
         /\ UNCHANGED <<fp_pc, start, total, fp_exc>>

\* login() of caller c has ended with `out`, the transport log being n1: the
\* caller goes on.  _favorites_pager (lines 117-119) issues its first
\* request when login() returned and dies with login()'s exception otherwise.
Resume(c, out, n1) ==
    IF c = "fav"
    THEN IF out = "returned"
         THEN /\ start' = 0
              /\ total' = None
              /\ net' = Append(n1, Request("FAV", 0, 0, FAVORITES_PAGE_SIZE))
              /\ fp_pc' = "request"
              /\ fp_exc' = fp_exc
         ELSE /\ fp_pc' = "failed"
              /\ fp_exc' = out
              /\ net' = n1
              /\ UNCHANGED <<start, total>>
    ELSE /\ net' = n1
         /\ UNCHANGED <<fp_pc, start, total, fp_exc>>

\* login() of caller c blocks in a request
Blocked(c, n1) ==
    /\ net' = n1
    /\ fp_pc' = IF c = "fav" THEN "login" ELSE fp_pc
    /\ UNCHANGED <<start, total, fp_exc>>

\* login() is called: by the application, or by the first next() on
\* _favorites_pager (line 115).  Runs to the token GET or to the call's end.
LoginCall(c) ==
    /\ login_pc[c] = "idle"
    /\ Len(calls) < MaxLoginCalls
    /\ c = "fav" => fp_pc = "created"
    /\ fp_nexts' = IF c = "fav" THEN fp_nexts + 1 ELSE fp_nexts
    /\ LET entry == LoginEntry(credentials, logged_in)
           id == Len(calls) + 1
           rec == [by |-> c, pre |-> logged_in, out |-> "running", page |-> None, post |-> None]
       IN IF entry = "get"
          THEN /\ calls' = Append(calls, rec)
               /\ login_pc' = [login_pc EXCEPT ![c] = "get"]
               /\ Blocked(c, Append(net, Request("GET_LOGIN", id, 0, 0)))
          ELSE /\ calls' = Append(calls, [rec EXCEPT !.out = entry])
               /\ login_pc' = login_pc
               /\ Resume(c, entry, net)
    /\ UNCHANGED <<sessionVars, login_token, tpVars, fp_yield>>
    /\ UNCHANGED <<jrVars, stripVars>>

\* the login page arrives: token extraction, antiforgery cookie check, and
\* the credential POST is issued
LoginPage(c, resp) ==
    /\ login_pc[c] = "get"
    /\ cookies' = JarAfter(cookies, resp.jar)
    /\ LET out == LoginPageOutcome(resp, cookies')
           tok == TokenValue(resp.token)
       IN IF out = "post"
          THEN /\ login_token' = [login_token EXCEPT ![c] = resp.token]
               /\ login_pc' = [login_pc EXCEPT ![c] = "post"]
               /\ calls' = SawPage(c, resp, cookies')
               /\ Blocked(c, Append(net, Request("POST_LOGIN", CurrentCall(c), tok, 0)))
          ELSE /\ login_token' = login_token
               /\ login_pc' = [login_pc EXCEPT ![c] = "idle"]
               /\ calls' = EndCall(SawPage(c, resp, cookies'), c, out)
               /\ Resume(c, out, net)
    /\ UNCHANGED <<credentials, logged_in, tpVars, fp_yield, fp_nexts>>
    /\ UNCHANGED <<jrVars, stripVars>>

\* the credential POST's response arrives: the final URL decides
LoginSubmit(c, resp) ==
    /\ login_pc[c] = "post"
    /\ cookies' = JarAfter(cookies, resp.jar)
    /\ LET out == LoginSubmitOutcome(resp)
       IN /\ logged_in' = LoggedInAfterSubmit(out, logged_in)
          /\ calls' = EndCall(SawPost(c, resp), c, out)
          /\ Resume(c, out, net)
    /\ login_pc' = [login_pc EXCEPT ![c] = "idle"]
    /\ login_token' = [login_token EXCEPT ![c] = None]
    /\ UNCHANGED <<credentials, tpVars, fp_yield, fp_nexts>>
    /\ UNCHANGED <<jrVars, stripVars>>

\* ----------------------------------------------------- _favorites_pager
\* faulty variant: start > total
FavStop_Strict(s, t) == LET n == CHOOSE x \in t : TRUE IN s > n

\* faulty variant: start == total, the test the numbered pager uses
FavStop_Equal(s, t) == LET n == CHOOSE x \in t : TRUE IN s = n

\* if start >= total: break
FavStop(s, t) == LET n == CHOOSE x \in t : TRUE IN s >= n

\* Client.get_favorites calls the pager: a generator is created, none of
\* its body runs
CallFavoritesPager ==
    /\ fp_pc = "none"
    /\ fp_pc' = "created"
    /\ UNCHANGED <<sessionVars, loginVars, net, tpVars, start, total, fp_yield,
                   fp_nexts, fp_exc>>
    /\ UNCHANGED <<jrVars, stripVars>>

\* the consumer asks for a further page (lines 123-125, 119)
FavNext ==
    /\ fp_pc = "yielded"
    /\ fp_nexts' = fp_nexts + 1
    /\ start' = start + FAVORITES_PAGE_SIZE
    /\ IF FavStop(start', total)
       THEN /\ fp_pc' = "done"
            /\ net' = net
       ELSE /\ fp_pc' = "request"
            /\ net' = Append(net, Request("FAV", 0, start', FAVORITES_PAGE_SIZE))
    /\ UNCHANGED <<sessionVars, loginVars, tpVars, total, fp_yield, fp_exc>>
    /\ UNCHANGED <<jrVars, stripVars>>

\* the favourites response arrives: json_request validates it, the pager
\* reads numTotalResults and yields the page
FavResponse(resp) ==
    /\ fp_pc = "request"
    /\ cookies' = JarAfter(cookies, resp.jar)
    /\ IF JsonRequest(resp) = "ok"
       THEN /\ total' = Some(resp.n)
            /\ fp_yield' = Append(fp_yield, [start |-> start, total |-> resp.n])
            /\ fp_pc' = "yielded"
            /\ fp_exc' = fp_exc
       ELSE /\ fp_pc' = GeneratorAfterRaise(JsonRequest(resp))
            /\ fp_exc' = JsonRequest(resp)
            /\ UNCHANGED <<total, fp_yield>>
    /\ UNCHANGED <<credentials, logged_in, loginVars, net, tpVars, start, fp_nexts>>
    /\ UNCHANGED <<jrVars, stripVars>>

\* ---------------------------------------------------- _cleanup_html_tags
\* Characters of a text: the two tag delimiters, an ordinary character and a
\* line break (which `.` does not match).
Chars == {"<", ">", "a", "\n"}

Texts == UNION {[1..n -> Chars] : n \in 0..MaxTextLen}

\* Index of the ">" that ends the match of <.*?> starting at the "<" at i, or
\* 0 when there is no match at i: the nearest ">" with no line break before it.
MatchEnd(s, i) ==
    LET ends == {j \in (i + 1)..Len(s) :
                    s[j] = ">" /\ \A k \in (i + 1)..(j - 1) : s[k] \notin {">", "\n"}}
    IN  IF s[i] = "<" /\ ends /= {} THEN CHOOSE j \in ends : TRUE ELSE 0

\* re.sub(r"<.*?>", "", s, count) scanning from index i with `done` matches
\* already replaced: leftmost non-overlapping matches are removed; count = 0
\* replaces all of them.
RECURSIVE SubFrom(_, _, _, _)
SubFrom(s, i, count, done) ==
    IF i > Len(s) THEN <<>>
    ELSE IF (count = 0 \/ done < count) /\ MatchEnd(s, i) /= 0
         THEN SubFrom(s, MatchEnd(s, i) + 1, count, done + 1)
         ELSE <<s[i]>> \o SubFrom(s, i + 1, count, done)

\* Fault variant: only the first tag is removed (count = 1).
CleanupHtmlTags_FirstOnly(s) == SubFrom(s, 1, 1, 0)

\* _cleanup_html_tags(text)
CleanupHtmlTags(s) == SubFrom(s, 1, 0, 0)

\* A caller cleans a text (one text per behaviour: the function is static and
\* keeps nothing between calls) ...
Cleanup(s) ==
    /\ cleaned = None
    /\ text' = s
    /\ cleaned' = Some(CleanupHtmlTags(s))
    /\ recleaned' = None
    /\ UNCHANGED <<sessionVars, loginVars, net, tpVars, fpVars, jrVars>>

\* ... and cleans the result once more.
CleanupAgain ==
    /\ cleaned /= None
    /\ recleaned = None
    /\ recleaned' = Some(CleanupHtmlTags(CHOOSE t \in cleaned : TRUE))
    /\ UNCHANGED <<sessionVars, loginVars, net, tpVars, fpVars, jrVars, text, cleaned>>

\* --------------------------------------------------------- specifications
\* the translations pager, single-threaded
NextTrans ==
    \/ Quiet /\ CallTranslationsPager
    \/ Quiet /\ TransNext
    \/ \E resp \in JsonResponses(0..MaxNPages) : TransResponse(resp)

SpecTrans == Init /\ [][NextTrans]_vars

\* the session and login() called by the application, single-threaded
Next ==
    \/ Quiet /\ LoginCall("app")
    \/ \E resp \in PageResponses : LoginPage("app", resp)
    \/ \E resp \in PostResponses : LoginSubmit("app", resp)

Spec == Init /\ [][Next]_vars

\* the favorites pager over a session the application may have logged in
\* before, single-threaded.  The login page hands out one token here and
\* responses do not expire the cookie; Spec covers those.
FavPageResponses == {r \in PageResponses : r.token \subseteq Some(1) /\ r.jar /= "clear"}

FavPostResponses == {r \in PostResponses : r.jar = "keep"}

NextFav ==
    \/ Quiet /\ \E c \in Callers : LoginCall(c)
    \/ \E c \in Callers : \E resp \in FavPageResponses : LoginPage(c, resp)
    \/ \E c \in Callers : \E resp \in FavPostResponses : LoginSubmit(c, resp)
    \/ Quiet /\ CallFavoritesPager
    \/ Quiet /\ FavNext
    \/ \E resp \in {r \in JsonResponses(Totals) : r.jar = "keep"} : FavResponse(resp)

SpecFav == Init /\ [][NextFav]_vars

\* bst-query-service responses met by that client: npages none, one or many
ClientTransResponses ==
    {r \in JsonResponses({0, 1, MaxNPages}) : r.jar = "keep"}

\* a client that uses its session for one of the two pagers: translation
\* samples on a session nobody logs in on, or favorites with login()
NextClient ==
    \/ Quiet /\ calls = <<>> /\ fp_pc = "none" /\ CallTranslationsPager
    \/ Quiet /\ TransNext
    \/ \E resp \in ClientTransResponses : TransResponse(resp)
    \/ tp_pc = "none" /\ NextFav

SpecClient == Init /\ [][NextClient]_vars

\* json_request under get_translations, single-threaded
NextJson ==
    \/ Quiet /\ GetTranslations
    \/ \E resp \in TermsResponses : TermsResponse(resp)

SpecJson == Init /\ [][NextJson]_vars

\* Tag stripping alone, over every text of at most MaxTextLen characters.
NextCleanup ==
    \/ \E s \in Texts : Cleanup(s)
    \/ CleanupAgain

SpecCleanup == Init /\ [][NextCleanup]_vars

\* Two callers share one session and are not kept apart: the application
\* calls login() while the first next() on get_favorites runs login() too, and
\* either may start while the other is blocked in a request.
NextConc ==
    \/ CallFavoritesPager
    \/ \E c \in Callers : LoginCall(c)
    \/ \E c \in Callers : \E resp \in FavPageResponses : LoginPage(c, resp)
    \/ \E c \in Callers : \E resp \in FavPostResponses : LoginSubmit(c, resp)

SpecConc == Init /\ [][NextConc]_vars

\* ------------------------------------------------------- derived histories
\* page numbers _translations_pager has requested, in order
TransRequested ==
    LET reqs == SelectSeq(net, LAMBDA r : r.req = "TRANS")
    IN [i \in 1..Len(reqs) |-> reqs[i].arg]

\* every response read so far reported npages = N (and one was read)
ConstantNPages(N) ==
    /\ Len(tp_yield) >= 1
    /\ \A i \in 1..Len(tp_yield) : tp_yield[i].npages = N

Max(a, b) == IF a >= b THEN a ELSE b

\* ------------------------------------------------------------------ claims
\* C1: when every response reports the same npages = N >= 1, a full
\* iteration of _translations_pager issues exactly N requests and yields
\* exactly the pages 1..N, in order.
C1_FullIterationYieldsAllPages ==
    \A N \in 1..MaxNPages :
        (tp_pc = "done" /\ ConstantNPages(N)) =>
            /\ TransRequested = [i \in 1..N |-> i]
            /\ Len(tp_yield) = N
            /\ \A i \in 1..N : tp_yield[i].page = i

\* C2: for a constant npages = N >= 0 the translations pager stops issuing
\* requests once the page numbered N has been requested: apart from the
\* unconditional first request it never requests a page number above N.
C2_StopsWithoutOverFetching ==
    \A N \in 0..MaxNPages :
        ConstantNPages(N) =>
            \A i \in 1..Len(TransRequested) : TransRequested[i] <= Max(N, 1)

\* the favourites requests issued, in order
FavRequested == SelectSeq(net, LAMBDA r : r.req = "FAV")

\* every favourites response read so far reported numTotalResults = T (and one was read)
ConstantTotal(T) ==
    /\ Len(fp_yield) >= 1
    /\ \A i \in 1..Len(fp_yield) : fp_yield[i].total = T

\* the requests login() invocation i handed to the transport, in order
LoginRequests(i) == SelectSeq(net, LAMBDA r : r.call = i)

Kinds(reqs) == [k \in 1..Len(reqs) |-> reqs[k].req]

Failures == {"NoCredentials", "HTTPError", "NoToken", "NoCookie", "BadRedirect"}

IsMultiple(m, p) == \E k \in 0..m : m = k * p

\* C3 as stated: when _favorites_pager stops with constant numTotalResults T,
\* start is the smallest multiple of the page size that is >= T.
C3_OffsetIsSmallestMultiple ==
    \A T \in Totals :
        (fp_pc = "done" /\ ConstantTotal(T)) =>
            /\ IsMultiple(start, FAVORITES_PAGE_SIZE)
            /\ start >= T
            /\ \A m \in 0..(start - 1) : IsMultiple(m, FAVORITES_PAGE_SIZE) => m < T

\* C3 amended: when _favorites_pager stops with constant numTotalResults T,
\* start is the smallest positive multiple of the page size that is >= T
\* (one page size for T = 0).
C3_OffsetIsSmallestPositiveMultiple ==
    \A T \in Totals :
        (fp_pc = "done" /\ ConstantTotal(T)) =>
            /\ IsMultiple(start, FAVORITES_PAGE_SIZE)
            /\ start >= T
            /\ start >= FAVORITES_PAGE_SIZE
            /\ \A m \in 1..(start - 1) : IsMultiple(m, FAVORITES_PAGE_SIZE) => m < T

C3_Witness ==
    /\ fp_pc = "done"
    /\ ConstantTotal(FAVORITES_PAGE_SIZE + 1)
    /\ start = 2 * FAVORITES_PAGE_SIZE

\* C4: when the first favourites response reports numTotalResults = 0, the
\* pager has issued exactly one request, with start = 0, yields exactly that
\* page, and the next next() ends it.
C4_ZeroResultsOnePage ==
    (Len(fp_yield) >= 1 /\ fp_yield[1].total = 0) =>
        /\ Len(FavRequested) = 1
        /\ FavRequested[1].arg = 0
        /\ Len(fp_yield) = 1
        /\ fp_yield[1].start = 0
        /\ \/ fp_pc = "yielded" /\ fp_nexts = 1
           \/ fp_pc = "done" /\ fp_nexts = 2

C4_Witness ==
    /\ fp_pc = "done"
    /\ Len(fp_yield) = 1
    /\ fp_yield[1].total = 0

\* C5: an iteration of _favorites_pager invokes login() exactly once, on its
\* first next() and before its first request; further pages invoke none; and
\* a favourites request is issued only with logged_in true.
C5_LoginOnceBeforeFavorites ==
    LET favCalls == {i \in 1..Len(calls) : calls[i].by = "fav"}
    IN /\ Cardinality(favCalls) = IF fp_nexts = 0 THEN 0 ELSE 1
       /\ fp_pc \in {"none", "created"} <=> fp_nexts = 0
       /\ Len(FavRequested) >= 1 =>
            /\ logged_in
            /\ \A i \in favCalls : calls[i].out = "returned"
       /\ \A i \in favCalls :
            calls[i].out \in Failures => (fp_pc = "failed" /\ FavRequested = <<>>)

C5_Witness ==
    /\ Len(FavRequested) = 2
    /\ Cardinality({i \in 1..Len(calls) : calls[i].by = "fav"}) = 1
    /\ fp_nexts = 2

\* C6: a login() called on a logged-in session returns without handing any
\* request to the transport; over any sequence of login() calls at most one
\* handshake (token GET, then credential POST) succeeds, and exactly one has
\* succeeded as soon as logged_in is true.
C6_IdempotentLogin ==
    LET done == {i \in 1..Len(calls) : ~calls[i].pre /\ calls[i].out = "returned"}
    IN /\ \A i \in 1..Len(calls) :
            calls[i].pre => (calls[i].out = "returned" /\ LoginRequests(i) = <<>>)
       /\ Cardinality(done) = IF logged_in THEN 1 ELSE 0
       /\ \A i \in done : Kinds(LoginRequests(i)) = <<"GET_LOGIN", "POST_LOGIN">>

C6_Witness ==
    /\ Len(calls) = 2
    /\ calls[1].out = "returned"
    /\ calls[2].pre
    /\ calls[2].out = "returned"

\* C7: on a session without credentials login() raises the credentials
\* error, hands no request to the transport, and leaves logged_in false and
\* the cookie jar as it was.
C7_NoCredentialsNoRequests ==
    credentials = None =>
        /\ \A i \in 1..Len(calls) : calls[i].out = "NoCredentials"
        /\ net = <<>>
        /\ ~logged_in
        /\ cookies = {}

C7_Witness ==
    /\ credentials = None
    /\ Len(calls) = 2
    /\ calls[2].out = "NoCredentials"

\* C8: a login() whose login page came back without the hidden input
\* __RequestVerificationToken fails with the token error and issues no
\* credential POST.
C8_NoTokenNoPost ==
    \A i \in 1..Len(calls) : \A pg \in calls[i].page :
        (~RaisesForStatus(pg.status) /\ pg.token = None) =>
            /\ calls[i].out = "NoToken"
            /\ Kinds(LoginRequests(i)) = <<"GET_LOGIN">>

C8_Witness ==
    \E i \in 1..Len(calls) : \E pg \in calls[i].page :
        /\ pg.status = 200
        /\ pg.token = None
        /\ pg.cookie
        /\ calls[i].out = "NoToken"

\* C9: a login() that finds no antiforgery cookie in the jar after the login
\* page has been fetched fails before any credentials are submitted: with the
\* cookie error when the page had a token, and with no credential POST.
C9_NoCookieNoPost ==
    \A i \in 1..Len(calls) : \A pg \in calls[i].page :
        (~RaisesForStatus(pg.status) /\ ~pg.cookie) =>
            /\ calls[i].out = IF pg.token = None THEN "NoToken" ELSE "NoCookie"
            /\ Kinds(LoginRequests(i)) = <<"GET_LOGIN">>

C9_Witness ==
    \E i \in 1..Len(calls) : \E pg \in calls[i].page :
        /\ pg.status = 200
        /\ pg.token /= None
        /\ ~pg.cookie
        /\ calls[i].out = "NoCookie"

\* C10: a login() that failed, at whatever step, leaves logged_in false, and
\* the next login() call runs the handshake again from the token GET.
C10_FailedLoginStaysLoggedOut ==
    \A i \in 1..Len(calls) :
        calls[i].out \in Failures =>
            /\ i = Len(calls) => ~logged_in
            /\ i < Len(calls) =>
                 /\ ~calls[i + 1].pre
                 /\ credentials /= None =>
                      /\ LoginRequests(i + 1) /= <<>>
                      /\ LoginRequests(i + 1)[1].req = "GET_LOGIN"

C10_Witness ==
    /\ Len(calls) = 2
    /\ \E pt \in calls[1].post : pt.status = 200 /\ pt.url /= RETURN_URL
    /\ calls[1].out = "BadRedirect"
    /\ calls[2].out = "returned"
    /\ logged_in

Is2xx(status) == status >= 200 /\ status < 300

TransOpen == IF tp_pc = "request" \/ tp_exc /= "none" THEN 1 ELSE 0

FavLoginFailed == \E i \in 1..Len(calls) : calls[i].by = "fav" /\ calls[i].out \in Failures

FavOpen == IF fp_pc = "request" \/ (fp_exc /= "none" /\ ~FavLoginFailed) THEN 1 ELSE 0

C12_FailureEndsPager ==
    /\ tp_exc /= "none" => tp_pc = "failed"
    /\ fp_exc /= "none" => fp_pc = "failed"
    /\ Len(TransRequested) = Len(tp_yield) + TransOpen
    /\ Len(FavRequested) = Len(fp_yield) + FavOpen
    /\ \A i \in 1..Len(calls) :
         (calls[i].by = "fav" /\ calls[i].out \in Failures) =>
            /\ fp_exc = calls[i].out
            /\ FavRequested = <<>>
            /\ fp_yield = <<>>

C12_NothingAfterFailure ==
    /\ tp_exc /= "none" =>
         (tp_pc' = tp_pc /\ TransRequested' = TransRequested /\ tp_yield' = tp_yield)
    /\ fp_exc /= "none" =>
         (fp_pc' = fp_pc /\ FavRequested' = FavRequested /\ fp_yield' = fp_yield)

\* C12: once a page fetch of either pager has failed (transport error or
\* error in the body), the pager is over: it issues no further request and
\* yields no further page; and when login() fails inside _favorites_pager, no
\* favourites request is issued and nothing is yielded.
C12_NoPartialSuccess == [](C12_FailureEndsPager) /\ [][C12_NothingAfterFailure]_vars

C12_Witness ==
    /\ fp_pc = "failed"
    /\ fp_exc = "ReversoException"
    /\ Len(fp_yield) = 1
    /\ Len(FavRequested) = 2

\* A text contains a tag when <.*?> matches somewhere in it.
HasTag(s) == \E i \in 1..Len(s) : MatchEnd(s, i) /= 0

\* C13: tag stripping is idempotent - stripping the stripped text gives the
\* stripped text again - and a text in which <.*?> matches nowhere is
\* returned unchanged.
C13_StripIdempotent ==
    /\ recleaned /= None => recleaned = cleaned
    /\ (cleaned /= None /\ ~HasTag(text)) => cleaned = Some(text)
    /\ \A t \in cleaned : ~HasTag(t)

\* A "<" that is kept because a line break comes before the next ">", followed
\* by a tag that is removed; the second stripping has been done.
C13_Witness ==
    /\ text = <<"<", "\n", "<", ">">>
    /\ cleaned = Some(<<"<", "\n">>)
    /\ recleaned = cleaned

\* C14: paging is lazy and strictly sequential.  In both pagers the requests
\* issued never exceed the pages the consumer asked for, and never run more
\* than one ahead of the pages yielded (the request for page n+1 follows the
\* yield of page n); the translations pager asks for pages 1, 2, 3, ... and
\* the favourites pager for offsets 0, P, 2P, ...
C14_LazySequentialPaging ==
    /\ Len(TransRequested) <= tp_nexts
    /\ Len(TransRequested) = Len(tp_yield) + TransOpen
    /\ \A i \in 1..Len(TransRequested) : TransRequested[i] = i
    /\ \A i \in 1..Len(tp_yield) : tp_yield[i].page = i
    /\ Len(FavRequested) <= fp_nexts
    /\ Len(FavRequested) = Len(fp_yield) + FavOpen
    /\ \A i \in 1..Len(FavRequested) : FavRequested[i].arg = (i - 1) * FAVORITES_PAGE_SIZE
    /\ \A i \in 1..Len(fp_yield) : fp_yield[i].start = (i - 1) * FAVORITES_PAGE_SIZE

\* the second page has been asked for and requested, after the first was yielded
C14_Witness ==
    /\ tp_pc = "request"
    /\ tp_nexts = 2
    /\ Len(tp_yield) = 1
    /\ TransRequested = <<1, 2>>

\* C15: pager exhaustion.  After the unconditional first request, the
\* translations pager never requests a page number greater than the npages it
\* read last, and the favourites pager never requests an offset at or beyond
\* the numTotalResults it read last; an iteration that ends normally has
\* yielded at least one page.
C15_NoRequestOnceExhausted ==
    /\ \A i \in 2..Len(TransRequested) : TransRequested[i] <= tp_yield[i - 1].npages
    /\ \A i \in 2..Len(FavRequested) : FavRequested[i].arg < fp_yield[i - 1].total
    /\ tp_pc = "done" => Len(tp_yield) >= 1
    /\ fp_pc = "done" => Len(fp_yield) >= 1

\* C16: no internal retry, single-use token.  Every login() call hands the
\* transport nothing, or one token GET, or one token GET followed by one
\* credential POST; and the token a POST carries is the one read from the
\* login page fetched by the same call, never one of an earlier call.
C16_NoRetrySingleUseToken ==
    /\ \A k \in 1..Len(net) : net[k].call \in 1..Len(calls)
    /\ \A i \in 1..Len(calls) :
         /\ Kinds(LoginRequests(i)) \in {<<>>, <<"GET_LOGIN">>, <<"GET_LOGIN", "POST_LOGIN">>}
         /\ \A k \in 1..Len(LoginRequests(i)) :
              LoginRequests(i)[k].req = "POST_LOGIN" =>
                  \E pg \in calls[i].page : pg.token = Some(LoginRequests(i)[k].arg)

\* a first login() posted token 1 and was turned away; the second login()
\* fetched the page again and posted the token it got, 2
C16_Witness ==
    /\ Len(calls) = 2
    /\ calls[1].out = "BadRedirect"
    /\ Kinds(LoginRequests(1)) = <<"GET_LOGIN", "POST_LOGIN">>
    /\ LoginRequests(1)[2].arg = 1
    /\ Kinds(LoginRequests(2)) = <<"GET_LOGIN", "POST_LOGIN">>
    /\ LoginRequests(2)[2].arg = 2

\* the credential POSTs handed to the transport, in order
LoginPosts == SelectSeq(net, LAMBDA r : r.req = "POST_LOGIN")

\* C17: login() provides no mutual exclusion.  The only thing that keeps a
\* login() call from running the handshake is the logged_in flag it reads at
\* its entry: every call that handed a request to the transport read the flag
\* as false, and the flag is true only once some such call has returned.
\* Nothing else holds a second caller back, so with two interleaved callers
\* both handshakes run (the witness: two credential POSTs in flight at once).
C17_OnlyTheFlagGuardsLogin ==
    /\ \A i \in 1..Len(calls) : LoginRequests(i) /= <<>> => ~calls[i].pre
    /\ logged_in =>
         \E i \in 1..Len(calls) :
             /\ calls[i].out = "returned"
             /\ Kinds(LoginRequests(i)) = <<"GET_LOGIN", "POST_LOGIN">>
    /\ Len(LoginPosts) <= Len(calls)

\* both callers passed the logged_in check before either set the flag: two
\* credential POSTs of one session are in flight
C17_Witness ==
    /\ ~logged_in
    /\ \A c \in Callers : login_pc[c] = "post"
    /\ Len(LoginPosts) = 2
    /\ LoginPosts[1].call /= LoginPosts[2].call

\* C18: login state.  In every state logged_in is true only if the session
\* has credentials and a credential POST of an earlier login() came back
\* without an error status and with the return URL as its final URL.
C18_LoggedInOnlyAfterAcceptedPost ==
    logged_in =>
        /\ credentials /= None
        /\ \E i \in 1..Len(calls) : \E pt \in calls[i].post :
               /\ pt.url = RETURN_URL
               /\ ~RaisesForStatus(pt.status)
               /\ calls[i].out = "returned"

\* logged_in changes only in the step in which a login() call comes back from
\* its credential POST, and it never goes from true to false.
C18_OnlyLoginSetsTheFlag ==
    /\ logged_in => logged_in'
    /\ logged_in' /= logged_in =>
          \E c \in Callers : login_pc[c] = "post" /\ login_pc'[c] = "idle"

\* C18 as a whole: the state condition always holds and every step keeps to
\* the step condition, whatever login(), pager and json_request steps are taken.
C18_LoginStateInvariant ==
    [](C18_LoggedInOnlyAfterAcceptedPost) /\ [][C18_OnlyLoginSetsTheFlag]_vars

\* the session is logged in and the favourites pager has gone on to yield a
\* page and request the next one
C18_Witness ==
    /\ logged_in
    /\ Len(fp_yield) = 1
    /\ fp_pc = "request"
    /\ Len(FavRequested) = 2

\* the result indexes the i-th favourites request asks for: [start, start + length)
Window(i) == FavRequested[i].arg..(FavRequested[i].arg + FavRequested[i].length - 1)

\* smallest number of pages of size p that hold t results
PagesFor(t, p) == CHOOSE k \in 0..t : k * p >= t /\ (k = 0 \/ (k - 1) * p < t)

\* C19: favourites coverage.  Every favourites request carries length = P.
\* When every response reported the same total T >= 1 and the iteration has
\* ended, the requested windows are pairwise disjoint, every result index in
\* [0, T) lies in exactly one of them, and max(1, ceil(T / P)) requests were
\* issued.
C19_FavoritesCoverage ==
    /\ \A i \in 1..Len(FavRequested) : FavRequested[i].length = FAVORITES_PAGE_SIZE
    /\ \A T \in Totals \ {0} :
         (fp_pc = "done" /\ ConstantTotal(T)) =>
             /\ \A i, j \in 1..Len(FavRequested) : i /= j => Window(i) \cap Window(j) = {}
             /\ \A x \in 0..(T - 1) :
                    Cardinality({i \in 1..Len(FavRequested) : x \in Window(i)}) = 1
             /\ Len(FavRequested) = Max(1, PagesFor(T, FAVORITES_PAGE_SIZE))

\* 51 favourites: a full iteration has asked for [0, 50) and [50, 100)
C19_Witness ==
    /\ fp_pc = "done"
    /\ ConstantTotal(FAVORITES_PAGE_SIZE + 1)
    /\ Len(FavRequested) = 2
    /\ Window(2) = FAVORITES_PAGE_SIZE..(2 * FAVORITES_PAGE_SIZE - 1)

====
